---- MODULE Spec2Model ----
(***************************************************************************)
(* Chain puzzle (puneetgarg80/chain-puzzle).                               *)
(*                                                                         *)
(* Four revisions of the chain component live in the sources and are       *)
(* modelled side by side; `variant' says which one a behaviour runs:       *)
(*   "puzzle"    src/unnamed/part_002  click-to-open controller            *)
(*   "compound"  src/index.tsx 1-344   collision merge, one compound body  *)
(*                                     (Matter.Body with parts) per chain  *)
(*   "composite" src/index.tsx 345-678 collision merge, one                *)
(*                                     Matter.Composite per chain          *)
(*   "layout"    src/components/Chain.tsx  the four chains of the rectangle*)
(*                                     as composites, no collision handler *)
(*                                                                         *)
(* Matter.js itself is not part of the repository.  The model follows its  *)
(* documented behaviour where the handlers depend on it:                   *)
(*  - Composite.allConstraints(world) lists world.constraints followed by  *)
(*    the constraints of every composite of the world, without removing    *)
(*    duplicates;                                                          *)
(*  - World.remove(world, x) without the `deep' flag removes x from the    *)
(*    top-level lists of the world only, one occurrence per call;          *)
(*  - World.add(world, x) appends x to the top-level list;                 *)
(*  - Composite.create({bodies}) does not add the composite to the world;  *)
(*  - Body.setParts(body, parts) makes parts = [body, ...parts \ body];    *)
(*  - the `parent' of a body that is not a part of a compound body is the  *)
(*    body itself (src/index.tsx:46 says so: "body.parent does not point   *)
(*    to the composite container").                                        *)
(* Objects are named by integers: links 1.., compound bodies, composites   *)
(* and walls by the identifier sets below.  world.constraints is kept as a *)
(* bag: the handlers only filter, count, add and remove its elements.      *)
(* Render colours and console output are not modelled.                     *)
(***************************************************************************)
EXTENDS Integers, Sequences, FiniteSets, Bags, TLC

VARIABLES
  variant,       \* which revision of the component runs
  chainsRef,     \* chainsRef.current: the registry of chains
  heap,          \* mutable fields of compound bodies / composites, by id
  world,         \* engine.world: top-level bodies, composites, constraints
  gameState,     \* puzzle: GameState
  openLinkInfo,  \* puzzle: OpenLinkInfo | null
  instruction,   \* the instruction text shown to the user
  mouseB,        \* bodyB of the mouse constraint (Null when not dragging)
  pc,            \* collision handler: "idle" or inside the for loop
  opened,        \* puzzle: number of links opened so far (bounded)
  bound          \* puzzle: gameState and openLinkInfo closed over by the
                 \* mousedown listener that is registered on the canvas

vars == <<variant, chainsRef, heap, world, gameState, openLinkInfo,
          instruction, mouseB, pc, opened, bound>>

\* The values of the render that created the current handleMouseDown
Closure == [gameState |-> gameState, openLinkInfo |-> openLinkInfo]

----------------------------------------------------------------------------
(* Bounds of the model *)

\* Links of the puzzle chain.  The component builds 10 (part_002:81).
NumLinks == 5
\* Number of links that may be opened in one behaviour.
MaxOpened == 2

(* Program constants *)

\* linkCount, src/index.tsx:183 and :527
LinkCount == 3
\* allChains = [topChain, bottomChain, leftChain, rightChain], src/index.tsx:206
NumChains == 4

\* JavaScript null / undefined
Null == 0

----------------------------------------------------------------------------
(* Generic helpers: Array.prototype methods used by the handlers *)

RECURSIVE SeqOfRange(_, _)
SeqOfRange(lo, hi) ==
  IF lo > hi THEN <<>> ELSE <<lo>> \o SeqOfRange(lo + 1, hi)

\* Array.prototype.includes
Includes(s, x) == \E i \in 1..Len(s) : s[i] = x

\* Array.prototype.indexOf, 1-based; only used when x occurs in s
IndexOf(s, x) ==
  CHOOSE i \in 1..Len(s) : s[i] = x /\ \A j \in 1..(i - 1) : s[j] # x

\* Array.prototype.reverse
Reverse(s) == [i \in 1..Len(s) |-> s[Len(s) + 1 - i]]

\* Array.prototype.slice(from) with a 0-based `from'
SliceFrom(s, from) == SubSeq(s, from + 1, Len(s))

\* Array.prototype.slice(0, to) with a 0-based exclusive `to'
SliceTo(s, to) == SubSeq(s, 1, to)

RECURSIVE SeqToBag(_)
SeqToBag(s) ==
  IF s = <<>> THEN EmptyBag ELSE SetToBag({Head(s)}) (+) SeqToBag(Tail(s))


----------------------------------------------------------------------------
(* Object identifiers *)

PuzzleLinks == 1..NumLinks
AutoLinks == 1..(NumChains * LinkCount)
Walls == {100 + i : i \in 1..4}
CompoundIds == {20 + k : k \in 1..NumChains}
CompositeIds == {30 + k : k \in 1..NumChains}
OrigChainId == 40

(* Constraints *)

\* Composites.chain: one constraint between consecutive bodies
ChainConstraints(bodies) ==
  [i \in 1..(Len(bodies) - 1) |-> [kind |-> "chain", a |-> bodies[i], b |-> bodies[i + 1]]]

\* The constraint that pins the first link of the puzzle chain to a point
AnchorConstraint == [kind |-> "anchor", a |-> Null, b |-> 1]

\* mouseConstraint.constraint (label 'Mouse Constraint'); its bodyB is mouseB
MouseConstraint == [kind |-> "mouse", a |-> Null, b |-> Null]

\* The connector the puzzle adds between the opened link and a chain end
Connector(openBody, endBody) == [kind |-> "connector", a |-> openBody, b |-> endBody]

\* The constraint the composite revision adds between the touching links
MergeConstraint(bodyA, bodyB) == [kind |-> "merge", a |-> bodyA, b |-> bodyB]

\* c.bodyA === body || c.bodyB === body
Touches(c, body) ==
  IF c.kind = "mouse" THEN mouseB = body ELSE c.a = body \/ c.b = body

\* The constraints of the composites S, as a bag
RECURSIVE ConstraintsOfComposites(_)
ConstraintsOfComposites(S) ==
  IF S = {} THEN EmptyBag
  ELSE LET c == CHOOSE x \in S : TRUE
       IN SeqToBag(heap[c].constraints) (+) ConstraintsOfComposites(S \ {c})

\* Composite.allConstraints(world), as a bag
AllConstraints == world.constraints (+) ConstraintsOfComposites(world.composites)

\* allConstraints.filter(c => c.bodyA === body || c.bodyB === body)
ConstraintsOn(body) ==
  LET all == AllConstraints
      D == {c \in DOMAIN all : Touches(c, body)}
  IN [c \in D |-> all[c]]

\* ... && c.label !== 'Mouse Constraint'
ChainConstraintsOn(body) ==
  LET on == ConstraintsOn(body)
      D == {c \in DOMAIN on : c.kind # "mouse"}
  IN [c \in D |-> on[c]]

----------------------------------------------------------------------------
(* Puzzle revision: src/unnamed/part_002 *)

IDLE == "IDLE"
LINK_OPENED == "LINK_OPENED"
CONNECTING == "CONNECTING"

NoOpenLink == [body |-> Null, originalConstraints |-> EmptyBag,
               connectedEnds |-> <<>>, newConstraints |-> <<>>]

\* A registered chain of the puzzle is the bodies array of its composite.
\* Registered chains are non-empty and pairwise disjoint, so the array
\* identifies the composite.
getBodyChain(body) ==
  IF \E i \in 1..Len(chainsRef) : Includes(chainsRef[i], body)
  THEN chainsRef[CHOOSE i \in 1..Len(chainsRef) :
                   /\ Includes(chainsRef[i], body)
                   /\ \A j \in 1..(i - 1) : ~Includes(chainsRef[j], body)]
  ELSE <<>>

getChainEnds ==
  {chainsRef[i][1] : i \in {j \in 1..Len(chainsRef) : Len(chainsRef[j]) > 0}}
  \cup {chainsRef[i][Len(chainsRef[i])] :
          i \in {j \in 1..Len(chainsRef) : Len(chainsRef[j]) > 1}}

\* Mutant of isChainEnd: every body passes for a chain end
isChainEndAlways(body) == TRUE

isChainEnd(body) == body \in getChainEnds

HasBodies(c) == Len(c) > 0

InitPuzzle ==
  /\ variant = "puzzle"
  /\ chainsRef = <<SeqOfRange(1, NumLinks)>>
  /\ heap = (OrigChainId :> [bodies |-> SeqOfRange(1, NumLinks),
                             constraints |-> ChainConstraints(SeqOfRange(1, NumLinks))])
  /\ world = [bodies |-> Walls, composites |-> {OrigChainId},
              constraints |-> SetToBag({AnchorConstraint, MouseConstraint})]
  /\ gameState = IDLE
  /\ openLinkInfo = NoOpenLink
  /\ instruction = "Click on a chain link to open it."
  /\ mouseB = Null
  /\ pc = "idle"
  /\ opened = 0
  /\ bound = Closure

\* Mutant of SplitBodies: the second slice starts at the clicked body
SplitBodiesOffByOne(bodyChain, clickedBody) ==
  LET bodyIndex == IndexOf(bodyChain, clickedBody) - 1
  IN <<SliceTo(bodyChain, bodyIndex), SliceFrom(bodyChain, bodyIndex)>>

\* chain1Bodies and chain2Bodies of the split
SplitBodies(bodyChain, clickedBody) ==
  LET bodyIndex == IndexOf(bodyChain, clickedBody) - 1
  IN <<SliceTo(bodyChain, bodyIndex), SliceFrom(bodyChain, bodyIndex + 1)>>

\* chainsRef.current.splice(oldChainIndex, 1, newChain1, newChain2), then
\* the filter that drops empty composites
ReplaceBySplit(chains, bodyChain, clickedBody) ==
  LET oldChainIndex == IndexOf(chains, bodyChain)
      spliced == SubSeq(chains, 1, oldChainIndex - 1)
                 \o SplitBodies(bodyChain, clickedBody)
                 \o SubSeq(chains, oldChainIndex + 1, Len(chains))
  IN SelectSeq(spliced, HasBodies)

\* Mutant of OpenLink: no test of the number of constraints on the link
OpenLinkNoCountTest(clickedBody) ==
  LET bodyChain == getBodyChain(clickedBody)
      originalConstraints == ConstraintsOn(clickedBody)
  IN IF bodyChain = <<>>
     THEN UNCHANGED vars
     ELSE /\ opened < MaxOpened
          /\ opened' = opened + 1
          /\ world' = [world EXCEPT !.constraints = @ (-) originalConstraints]
          /\ chainsRef' = ReplaceBySplit(chainsRef, bodyChain, clickedBody)
          /\ openLinkInfo' = [body |-> clickedBody,
                              originalConstraints |-> originalConstraints,
                              connectedEnds |-> <<>>, newConstraints |-> <<>>]
          /\ gameState' = LINK_OPENED
          /\ instruction' = "Link opened. Click a chain end to connect."
          /\ UNCHANGED <<variant, heap, mouseB, pc>>

\* case GameState.IDLE
OpenLink(clickedBody) ==
  LET bodyChain == getBodyChain(clickedBody)
      originalConstraints == ConstraintsOn(clickedBody)
  IN IF bodyChain = <<>> \/ BagCardinality(originalConstraints) > 2
     THEN UNCHANGED vars
     ELSE /\ opened < MaxOpened
          /\ opened' = opened + 1
          /\ world' = [world EXCEPT !.constraints = @ (-) originalConstraints]
          /\ chainsRef' = ReplaceBySplit(chainsRef, bodyChain, clickedBody)
          /\ openLinkInfo' = [body |-> clickedBody,
                              originalConstraints |-> originalConstraints,
                              connectedEnds |-> <<>>, newConstraints |-> <<>>]
          /\ gameState' = LINK_OPENED
          /\ instruction' = "Link opened. Click a chain end to connect."
          /\ UNCHANGED <<variant, heap, mouseB, pc>>

\* Mutant of Regroup: no test that the chain was absorbed already
RECURSIVE RegroupNoDedup(_, _, _)
RegroupNoDedup(ends, connectedChains, bodiesToGroup) ==
  IF ends = <<>>
  THEN [connectedChains |-> connectedChains, bodiesToGroup |-> bodiesToGroup]
  ELSE LET endBody == Head(ends)
           chain == getBodyChain(endBody)
       IN IF chain # <<>>
          THEN RegroupNoDedup(Tail(ends), Append(connectedChains, chain),
                              bodiesToGroup \o (IF chain[1] = endBody
                                                THEN Reverse(chain) ELSE chain))
          ELSE RegroupNoDedup(Tail(ends), connectedChains, bodiesToGroup)

\* openLinkInfo.connectedEnds.forEach(...): the chains to absorb and the
\* bodies of the new chain
RECURSIVE Regroup(_, _, _)
Regroup(ends, connectedChains, bodiesToGroup) ==
  IF ends = <<>>
  THEN [connectedChains |-> connectedChains, bodiesToGroup |-> bodiesToGroup]
  ELSE LET endBody == Head(ends)
           chain == getBodyChain(endBody)
       IN IF chain # <<>> /\ ~Includes(connectedChains, chain)
          THEN Regroup(Tail(ends), Append(connectedChains, chain),
                       bodiesToGroup \o (IF chain[1] = endBody
                                         THEN Reverse(chain) ELSE chain))
          ELSE Regroup(Tail(ends), connectedChains, bodiesToGroup)

\* Mutant of FinalizedChains: the absorbed chains stay registered
FinalizedChainsKeepAbsorbed ==
  LET g == Regroup(openLinkInfo.connectedEnds, <<>>, <<openLinkInfo.body>>)
  IN Append(chainsRef, g.bodiesToGroup)

\* remainingChains plus the new composite
FinalizedChains ==
  LET g == Regroup(openLinkInfo.connectedEnds, <<>>, <<openLinkInfo.body>>)
      Remaining(c) == ~Includes(g.connectedChains, c)
  IN Append(SelectSeq(chainsRef, Remaining), g.bodiesToGroup)

\* Mutant of FinalizeConnection: the controller goes back to LINK_OPENED
FinalizeConnectionWrongState ==
  /\ chainsRef' = FinalizedChains
  /\ openLinkInfo' = NoOpenLink
  /\ gameState' = LINK_OPENED
  /\ instruction' = "Connection closed. Click another link to open it."
  /\ UNCHANGED <<variant, heap, world, mouseB, pc, opened>>

\* click on the opened link with at least one new constraint
FinalizeConnection ==
  /\ chainsRef' = FinalizedChains
  /\ openLinkInfo' = NoOpenLink
  /\ gameState' = IDLE
  /\ instruction' = "Connection closed. Click another link to open it."
  /\ UNCHANGED <<variant, heap, world, mouseB, pc, opened>>

\* click on the opened link with no new constraint
CancelOpen ==
  /\ world' = [world EXCEPT !.constraints = @ (+) openLinkInfo.originalConstraints]
  /\ openLinkInfo' = NoOpenLink
  /\ gameState' = IDLE
  /\ instruction' = "Action cancelled. Click a link to open it."
  /\ UNCHANGED <<variant, chainsRef, heap, mouseB, pc, opened>>

\* Mutant of ConnectEnd: setGameState(GameState.CONNECTING) is left out
ConnectEndKeepsState(clickedBody) ==
  LET newConstraint == Connector(openLinkInfo.body, clickedBody)
  IN /\ world' = [world EXCEPT !.constraints = @ (+) SetToBag({newConstraint})]
     /\ openLinkInfo' = [openLinkInfo EXCEPT
                           !.connectedEnds = Append(@, clickedBody),
                           !.newConstraints = Append(@, newConstraint)]
     /\ gameState' = gameState
     /\ instruction' =
          IF Len(openLinkInfo.connectedEnds) = 1
          THEN "Connected one end. Click another end or click the yellow link to close."
          ELSE "Connected two ends. Click the yellow link to close the connection."
     /\ UNCHANGED <<variant, chainsRef, heap, mouseB, pc, opened>>

\* click on a chain end while a link is open
ConnectEnd(clickedBody) ==
  LET newConstraint == Connector(openLinkInfo.body, clickedBody)
  IN /\ world' = [world EXCEPT !.constraints = @ (+) SetToBag({newConstraint})]
     /\ openLinkInfo' = [openLinkInfo EXCEPT
                           !.connectedEnds = Append(@, clickedBody),
                           !.newConstraints = Append(@, newConstraint)]
     /\ gameState' = CONNECTING
     /\ instruction' =
          IF Len(openLinkInfo.connectedEnds) = 1
          THEN "Connected one end. Click another end or click the yellow link to close."
          ELSE "Connected two ends. Click the yellow link to close the connection."
     /\ UNCHANGED <<variant, chainsRef, heap, mouseB, pc, opened>>

\* The mousedown listener, for a click that hits clickedBody.  Matter
\* attaches the mouse constraint at the engine update after a press and
\* releases it at the update after the mouseup, so the listener can run
\* while the constraint still holds a body.
handleMouseDown(clickedBody) ==
  /\ variant = "puzzle"
  /\ IF gameState = IDLE THEN OpenLink(clickedBody)
     ELSE IF openLinkInfo = NoOpenLink THEN UNCHANGED vars
     ELSE IF clickedBody = openLinkInfo.body
          THEN IF Len(openLinkInfo.newConstraints) > 0
               THEN FinalizeConnection ELSE CancelOpen
     ELSE IF /\ isChainEnd(clickedBody)
             /\ Len(openLinkInfo.connectedEnds) < 2
             /\ ~Includes(openLinkInfo.connectedEnds, clickedBody)
          THEN ConnectEnd(clickedBody)
          ELSE UNCHANGED vars

\* The mousedown listener, for a click that hits no body
handleMouseDownNoBody ==
  /\ variant = "puzzle"
  /\ UNCHANGED vars

\* World.remove(world, constraints): one occurrence of each
RECURSIVE RemoveEach(_, _)
RemoveEach(bag, cs) ==
  IF cs = <<>> THEN bag
  ELSE RemoveEach(bag (-) SetToBag({Head(cs)}), Tail(cs))

\* Mutant of resetPuzzle: the original constraints are not added back
resetPuzzleNoRestore ==
  /\ variant = "puzzle"
  /\ world' = IF openLinkInfo # NoOpenLink
              THEN [world EXCEPT !.constraints =
                      RemoveEach(@, openLinkInfo.newConstraints)]
              ELSE world
  /\ gameState' = IDLE
  /\ openLinkInfo' = NoOpenLink
  /\ instruction' = "Action cancelled. Click a link to open it."
  /\ UNCHANGED <<variant, chainsRef, heap, mouseB, pc, opened>>

\* Mutant of resetPuzzle: the connectors of the session are not removed
resetPuzzleKeepsConnectors ==
  /\ variant = "puzzle"
  /\ world' = IF openLinkInfo # NoOpenLink
              THEN [world EXCEPT !.constraints = @ (+) openLinkInfo.originalConstraints]
              ELSE world
  /\ gameState' = IDLE
  /\ openLinkInfo' = NoOpenLink
  /\ instruction' = "Action cancelled. Click a link to open it."
  /\ UNCHANGED <<variant, chainsRef, heap, mouseB, pc, opened>>

\* Mutant of resetPuzzle: the registry is restored to the single chain
resetPuzzleRejoins ==
  /\ variant = "puzzle"
  /\ world' = IF openLinkInfo # NoOpenLink
              THEN [world EXCEPT !.constraints =
                      RemoveEach(@ (+) openLinkInfo.originalConstraints,
                                 openLinkInfo.newConstraints)]
              ELSE world
  /\ chainsRef' = IF openLinkInfo # NoOpenLink
                  THEN <<SeqOfRange(1, NumLinks)>> ELSE chainsRef
  /\ gameState' = IDLE
  /\ openLinkInfo' = NoOpenLink
  /\ instruction' = "Action cancelled. Click a link to open it."
  /\ UNCHANGED <<variant, heap, mouseB, pc, opened>>

\* The "Cancel Action" button
resetPuzzle ==
  /\ variant = "puzzle"
  /\ world' = IF openLinkInfo # NoOpenLink
              THEN [world EXCEPT !.constraints =
                      RemoveEach(@ (+) openLinkInfo.originalConstraints,
                                 openLinkInfo.newConstraints)]
              ELSE world
  /\ gameState' = IDLE
  /\ openLinkInfo' = NoOpenLink
  /\ instruction' = "Action cancelled. Click a link to open it."
  /\ UNCHANGED <<variant, chainsRef, heap, mouseB, pc, opened>>

----------------------------------------------------------------------------
(* Collision merge, both revisions: src/index.tsx *)

\* The links createChain gives the k-th chain
LinksOfChain(k) == SeqOfRange((k - 1) * LinkCount + 1, k * LinkCount)

\* body.label: 'chainLink' is given to the links of the two collision
\* revisions only; Bodies.rectangle labels every other link and the walls,
\* Body.create labels a compound body
Label(body) ==
  IF body \in AutoLinks /\ variant \in {"compound", "composite"} THEN "chainLink"
  ELSE IF body \in CompoundIds THEN "Body" ELSE "Rectangle Body"

\* Body.setParts(body, parts): the resulting parts array
setParts(body, parts) ==
  LET NotSelf(p) == p # body IN <<body>> \o SelectSeq(parts, NotSelf)

\* The result of examining a pair that is skipped
\* Mutant of Skip: a rejected pair sets the instruction text
SkipSetsInstruction ==
  [accepted |-> FALSE, chainsRef |-> chainsRef, heap |-> heap, world |-> world,
   instruction |-> "Nice! Keep connecting to form one single chain."]

\* `continue': the pair is rejected and nothing is written
Skip ==
  [accepted |-> FALSE, chainsRef |-> chainsRef, heap |-> heap, world |-> world,
   instruction |-> instruction]

(* Compound-body revision: src/index.tsx 1-344 *)

InitCompound ==
  /\ variant = "compound"
  /\ chainsRef = [k \in 1..NumChains |-> 20 + k]
  /\ heap = [c \in CompoundIds |-> [parts |-> setParts(c, LinksOfChain(c - 20))]]
  /\ world = [bodies |-> Walls \cup CompoundIds, composites |-> {},
              constraints |-> SetToBag({MouseConstraint})]
  /\ gameState = IDLE
  /\ openLinkInfo = NoOpenLink
  /\ instruction = "Drag the chains together to connect them."
  /\ mouseB = Null
  /\ pc = "idle"
  /\ opened = 0
  /\ bound = Closure

\* chainsRef.current.find(c => c.parts.some(b => b.id === body.id))
findParentComposite(body) ==
  IF \E i \in 1..Len(chainsRef) : Includes(heap[chainsRef[i]].parts, body)
  THEN chainsRef[CHOOSE i \in 1..Len(chainsRef) :
                   /\ Includes(heap[chainsRef[i]].parts, body)
                   /\ \A j \in 1..(i - 1) : ~Includes(heap[chainsRef[j]].parts, body)]
  ELSE Null

\* Mutant of SameComposite: the same-chain test never fires
NeverSameComposite(compositeA, compositeB) == FALSE

\* compositeA.id === compositeB.id
SameComposite(compositeA, compositeB) == compositeA = compositeB

\* bodyAConstraints.length >= 2 || bodyBConstraints.length >= 2
NotEndLinks(nA, nB) == nA >= 2 \/ nB >= 2

\* Mutant of PartsToTransfer: slice(2) in place of slice(1)
PartsToTransferOneShort(compositeB) == SliceFrom(heap[compositeB].parts, 2)

\* partsToTransfer
PartsToTransfer(compositeB) == SliceFrom(heap[compositeB].parts, 1)

\* Mutant of NewTargetParts: the target's own parts are not carried over
NewTargetPartsSourceOnly(compositeA, compositeB) ==
  <<compositeA>> \o SliceFrom(heap[compositeB].parts, 1)

\* newTargetParts
NewTargetParts(compositeA, compositeB) ==
  <<compositeA>> \o SliceFrom(heap[compositeA].parts, 1) \o PartsToTransfer(compositeB)

\* Mutant of MergeCompound: the absorbed body is not removed from the world
MergeCompoundKeepsBody(compositeA, compositeB) ==
  LET NotB(c) == c # compositeB
  IN [accepted |-> TRUE,
      heap |-> [heap EXCEPT
                  ![compositeB].parts = setParts(compositeB, <<compositeB>>),
                  ![compositeA].parts = setParts(compositeA,
                                                 NewTargetParts(compositeA, compositeB))],
      world |-> world,
      chainsRef |-> SelectSeq(chainsRef, NotB),
      instruction |-> "Nice! Keep connecting to form one single chain."]

\* Mutant of MergeCompound: the registry is not filtered
MergeCompoundKeepsRegistry(compositeA, compositeB) ==
  [accepted |-> TRUE,
   heap |-> [heap EXCEPT
               ![compositeB].parts = setParts(compositeB, <<compositeB>>),
               ![compositeA].parts = setParts(compositeA,
                                              NewTargetParts(compositeA, compositeB))],
   world |-> [world EXCEPT !.bodies = @ \ {compositeB}],
   chainsRef |-> chainsRef,
   instruction |-> "Nice! Keep connecting to form one single chain."]

\* Mutant of MergeCompound: setInstruction is left out
MergeCompoundSilent(compositeA, compositeB) ==
  LET NotB(c) == c # compositeB
  IN [accepted |-> TRUE,
      heap |-> [heap EXCEPT
                  ![compositeB].parts = setParts(compositeB, <<compositeB>>),
                  ![compositeA].parts = setParts(compositeA,
                                                 NewTargetParts(compositeA, compositeB))],
      world |-> [world EXCEPT !.bodies = @ \ {compositeB}],
      chainsRef |-> SelectSeq(chainsRef, NotB),
      instruction |-> instruction]

\* Steps 5.3 and 5.4 of the handler
MergeCompound(compositeA, compositeB) ==
  LET NotB(c) == c # compositeB
  IN [accepted |-> TRUE,
      heap |-> [heap EXCEPT
                  ![compositeB].parts = setParts(compositeB, <<compositeB>>),
                  ![compositeA].parts = setParts(compositeA,
                                                 NewTargetParts(compositeA, compositeB))],
      world |-> [world EXCEPT !.bodies = @ \ {compositeB}],
      chainsRef |-> SelectSeq(chainsRef, NotB),
      instruction |-> "Nice! Keep connecting to form one single chain."]

\* One iteration of the for loop on the pair (bodyA, bodyB)
CompoundPair(bodyA, bodyB) ==
  IF Label(bodyA) # "chainLink" \/ Label(bodyB) # "chainLink" THEN Skip
  ELSE LET compositeA == findParentComposite(bodyA)
           compositeB == findParentComposite(bodyB)
       IN IF compositeA = Null \/ compositeB = Null THEN Skip
          ELSE IF SameComposite(compositeA, compositeB) THEN Skip
          ELSE IF NotEndLinks(BagCardinality(ChainConstraintsOn(bodyA)),
                              BagCardinality(ChainConstraintsOn(bodyB)))
               THEN Skip
          ELSE MergeCompound(compositeA, compositeB)

(* Composite revision: src/index.tsx 345-678 *)

InitComposite ==
  /\ variant = "composite"
  /\ chainsRef = [k \in 1..NumChains |-> 30 + k]
  /\ heap = [c \in CompositeIds |->
               [bodies |-> LinksOfChain(c - 30),
                constraints |-> ChainConstraints(LinksOfChain(c - 30))]]
  /\ world = [bodies |-> Walls, composites |-> CompositeIds,
              constraints |-> SetToBag({MouseConstraint})]
  /\ gameState = IDLE
  /\ openLinkInfo = NoOpenLink
  /\ instruction = "Drag the chains together to connect them."
  /\ mouseB = Null
  /\ pc = "idle"
  /\ opened = 0
  /\ bound = Closure

(* Rectangle layout without handler: src/components/Chain.tsx *)

InitLayout ==
  /\ variant = "layout"
  /\ chainsRef = [k \in 1..NumChains |-> 30 + k]
  /\ heap = [c \in CompositeIds |->
               [bodies |-> LinksOfChain(c - 30),
                constraints |-> ChainConstraints(LinksOfChain(c - 30))]]
  /\ world = [bodies |-> Walls, composites |-> CompositeIds,
              constraints |-> SetToBag({MouseConstraint})]
  /\ gameState = IDLE
  /\ openLinkInfo = NoOpenLink
  /\ instruction = "Four chains arranged in a rectangle."
  /\ mouseB = Null
  /\ pc = "idle"
  /\ opened = 0
  /\ bound = Closure

\* body.parent: the links and walls of this revision are plain bodies
Parent(body) == body

\* compositeA.bodies is defined: only a composite has a `bodies' array
HasBodiesArray(obj) == obj \in CompositeIds

\* Steps 3 to 5 of the handler
MergeComposite(bodyA, bodyB, compositeA, compositeB) ==
  LET NotB(c) == c # compositeB
  IN [accepted |-> TRUE,
      heap |-> [heap EXCEPT
                  ![compositeA].bodies = @ \o heap[compositeB].bodies,
                  ![compositeA].constraints = @ \o heap[compositeB].constraints,
                  ![compositeB].bodies = <<>>,
                  ![compositeB].constraints = <<>>],
      world |-> [world EXCEPT
                   !.constraints = @ (+) SetToBag({MergeConstraint(bodyA, bodyB)}),
                   !.composites = @ \ {compositeB}],
      chainsRef |-> SelectSeq(chainsRef, NotB),
      instruction |-> "Nice! Keep connecting to form one single chain."]

\* One iteration of the for loop on the pair (bodyA, bodyB)
CompositePair(bodyA, bodyB) ==
  IF \/ Label(bodyA) # "chainLink" \/ Label(bodyB) # "chainLink"
     \/ Parent(bodyA) = Parent(bodyB)
  THEN Skip
  ELSE LET compositeA == Parent(bodyA)
           compositeB == Parent(bodyB)
       IN IF ~HasBodiesArray(compositeA) \/ ~HasBodiesArray(compositeB) THEN Skip
          ELSE IF NotEndLinks(BagCardinality(ConstraintsOn(bodyA)),
                              BagCardinality(ConstraintsOn(bodyB)))
               THEN Skip
          ELSE MergeComposite(bodyA, bodyB, compositeA, compositeB)

(* The handler as steps *)

\* The bodies a collision pair can name: links and walls
PairBodies == AutoLinks \cup Walls

ProcessPair(bodyA, bodyB) ==
  IF variant = "compound" THEN CompoundPair(bodyA, bodyB)
  ELSE CompositePair(bodyA, bodyB)

\* 'collisionStart' fires: the handler is entered with the tick's pairs
handleCollision ==
  /\ variant \in {"compound", "composite"}
  /\ pc = "idle"
  /\ pc' = "loop"
  /\ UNCHANGED <<variant, chainsRef, heap, world, gameState, openLinkInfo,
                 instruction, mouseB, opened>>

\* Mutant of LoopPair: no break after an accepted pair
LoopPairNoBreak(bodyA, bodyB) ==
  /\ variant \in {"compound", "composite"}
  /\ pc = "loop"
  /\ LET r == ProcessPair(bodyA, bodyB)
     IN /\ chainsRef' = r.chainsRef
        /\ heap' = r.heap
        /\ world' = r.world
        /\ instruction' = r.instruction
        /\ pc' = "loop"
  /\ UNCHANGED <<variant, gameState, openLinkInfo, mouseB, opened>>

\* The loop body on the next pair of the tick; an accepted pair ends the loop
LoopPair(bodyA, bodyB) ==
  /\ variant \in {"compound", "composite"}
  /\ pc = "loop"
  /\ LET r == ProcessPair(bodyA, bodyB)
     IN /\ chainsRef' = r.chainsRef
        /\ heap' = r.heap
        /\ world' = r.world
        /\ instruction' = r.instruction
        /\ pc' = IF r.accepted THEN "idle" ELSE "loop"
  /\ UNCHANGED <<variant, gameState, openLinkInfo, mouseB, opened>>

\* The pairs of the tick are exhausted
LoopEnd ==
  /\ variant \in {"compound", "composite"}
  /\ pc = "loop"
  /\ pc' = "idle"
  /\ UNCHANGED <<variant, chainsRef, heap, world, gameState, openLinkInfo,
                 instruction, mouseB, opened>>

\* The bodies the mouse constraint can take hold of; it does not test
\* isStatic, so a wall under the pointer is held like a link.  The walls
\* are placed once around the canvas of the setup and the resize handler
\* only resizes the canvas, so a press can land on any of the four.
Draggable ==
  Walls \cup
    (IF variant = "compound" THEN world.bodies \ Walls
     ELSE IF variant \in {"composite", "layout"} THEN AutoLinks ELSE PuzzleLinks)

\* MouseConstraint: the engine update after a mousedown over a body
MouseAttach(body) ==
  /\ pc = "idle"
  /\ body \in Draggable
  /\ mouseB = Null
  /\ mouseB' = body
  /\ UNCHANGED <<variant, chainsRef, heap, world, gameState, openLinkInfo,
                 instruction, pc, opened>>

\* MouseConstraint: the engine update after the mouseup
MouseRelease ==
  /\ pc = "idle"
  /\ mouseB # Null
  /\ mouseB' = Null
  /\ UNCHANGED <<variant, chainsRef, heap, world, gameState, openLinkInfo,
                 instruction, pc, opened>>

----------------------------------------------------------------------------
Init == InitPuzzle \/ InitCompound \/ InitComposite \/ InitLayout

----------------------------------------------------------------------------
(* The mousedown listener and its re-binding: src/unnamed/part_002         *)
(* 145-279.  The listener on the canvas is the handleMouseDown of the      *)
(* render whose effect ran last; it reads gameState and openLinkInfo of    *)
(* that render, chainsRef.current and the world as they are, and writes    *)
(* through the state setters.                                              *)

\* Finalize branch, read from the captured session
FinalizedChainsOf(info) ==
  LET g == Regroup(info.connectedEnds, <<>>, <<info.body>>)
      Remaining(c) == ~Includes(g.connectedChains, c)
  IN Append(SelectSeq(chainsRef, Remaining), g.bodiesToGroup)

\* Connect branch of a listener of an earlier render: the test and the new
\* constraint read the captured session, setOpenLinkInfo(prev => ...)
\* appends to the session of the latest update
ConnectEndOf(info, clickedBody) ==
  LET newConstraint == Connector(info.body, clickedBody)
  IN /\ world' = [world EXCEPT !.constraints = @ (+) SetToBag({newConstraint})]
     /\ openLinkInfo' = IF openLinkInfo # NoOpenLink
                        THEN [openLinkInfo EXCEPT
                                !.connectedEnds = Append(@, clickedBody),
                                !.newConstraints = Append(@, newConstraint)]
                        ELSE NoOpenLink
     /\ gameState' = CONNECTING
     /\ instruction' =
          IF Len(info.connectedEnds) = 1
          THEN "Connected one end. Click another end or click the yellow link to close."
          ELSE "Connected two ends. Click the yellow link to close the connection."
     /\ UNCHANGED <<variant, chainsRef, heap, mouseB, pc, opened>>

\* handleMouseDown as the closure of a render with state gs and session
\* info, for a click that hits clickedBody
handleMouseDownOf(gs, info, clickedBody) ==
  /\ variant = "puzzle"
  /\ IF gs = IDLE THEN OpenLink(clickedBody)
     ELSE IF info = NoOpenLink THEN UNCHANGED vars
     ELSE IF clickedBody = info.body
          THEN IF Len(info.newConstraints) > 0
               THEN /\ chainsRef' = FinalizedChainsOf(info)
                    /\ openLinkInfo' = NoOpenLink
                    /\ gameState' = IDLE
                    /\ instruction' = "Connection closed. Click another link to open it."
                    /\ UNCHANGED <<variant, heap, world, mouseB, pc, opened>>
               ELSE /\ world' = [world EXCEPT
                                   !.constraints = @ (+) info.originalConstraints]
                    /\ openLinkInfo' = NoOpenLink
                    /\ gameState' = IDLE
                    /\ instruction' = "Action cancelled. Click a link to open it."
                    /\ UNCHANGED <<variant, chainsRef, heap, mouseB, pc, opened>>
     ELSE IF /\ isChainEnd(clickedBody)
             /\ Len(info.connectedEnds) < 2
             /\ ~Includes(info.connectedEnds, clickedBody)
          THEN ConnectEndOf(info, clickedBody)
          ELSE UNCHANGED vars

\* A mousedown on the canvas runs the listener that is registered: the
\* handleMouseDown of the latest render when the effect has re-bound it,
\* the closure of the render it was bound in otherwise
MouseDownBound(clickedBody) ==
  IF bound = Closure
  THEN handleMouseDown(clickedBody)
  ELSE handleMouseDownOf(bound.gameState, bound.openLinkInfo, clickedBody)

\* Mutant of Flushed: the effect has an empty dependency list, the listener
\* of the first render stays registered
FlushedFirstRenderOnly == bound' = bound

\* The effect that re-binds the listener (useEffect with dependency
\* handleMouseDown), run to its end within the step that set the state:
\* the roots are made by createRoot, where the update of a mousedown
\* listener is rendered and its effects are run before the next event
Flushed == bound' = Closure'

\* Every handler step ends with the render and the effects it schedules:
\* the next event meets the listener of the latest render.
Next ==
  \/ (\E b \in PuzzleLinks \cup Walls : MouseDownBound(b)) /\ Flushed
  \/ handleMouseDownNoBody /\ Flushed
  \/ resetPuzzle /\ Flushed
  \/ handleCollision /\ Flushed
  \/ (\E a \in PairBodies : \E b \in PairBodies \ {a} : LoopPair(a, b)) /\ Flushed
  \/ LoopEnd /\ Flushed
  \/ (\E b \in AutoLinks \cup CompoundIds \cup Walls : MouseAttach(b)) /\ Flushed
  \/ MouseRelease /\ Flushed

Spec == Init /\ [][Next]_vars

----------------------------------------------------------------------------
(* Properties of the puzzle revision *)

\* Number of places of the registry that hold link l
RECURSIVE Occurrences(_, _)
Occurrences(chains, l) ==
  IF chains = <<>> THEN 0
  ELSE Cardinality({j \in 1..Len(Head(chains)) : Head(chains)[j] = l})
       + Occurrences(Tail(chains), l)

\* The links of a chain of the puzzle registry, as a set
LinkSet(chain) == {chain[j] : j \in 1..Len(chain)}

\* C1: in the puzzle revision every chain link belongs to exactly one chain
\* of the registry, in every reachable state.  The link held by the open-link
\* session is left out of the count here, so that a violation is a link that
\* is lost (or doubled) for good and not the link being handled.
C1_EveryLinkInExactlyOneChain ==
  variant = "puzzle" =>
    \A l \in PuzzleLinks :
      (gameState = IDLE \/ l # openLinkInfo.body) => Occurrences(chainsRef, l) = 1

\* C3: a link of the initial chain is opened and the session is closed by a
\* click on the opened link with no connection made: the registry again
\* holds the original chain alone, link for link.
C3_SplitRejoinRoundTrip ==
  [][(/\ variant = "puzzle"
      /\ opened = 1
      /\ gameState = LINK_OPENED
      /\ handleMouseDown(openLinkInfo.body))
     => chainsRef' = <<SeqOfRange(1, NumLinks)>>]_vars

\* The connectors of world.constraints, counted with multiplicity
NumConnectors ==
  LET D == {c \in DOMAIN world.constraints : c.kind = "connector"}
  IN BagCardinality([c \in D |-> world.constraints[c]])

\* The sub-chains that replace a chain of k links opened at 0-based index i
SubChains(chain, i) ==
  LET k == Len(chain)
      before == [j \in 1..i |-> chain[j]]
      after == [j \in 1..(k - 1 - i) |-> chain[i + 1 + j]]
  IN (IF i > 0 THEN <<before>> ELSE <<>>) \o (IF k - 1 - i > 0 THEN <<after>> ELSE <<>>)

\* C9: opening in Idle the link at index i of a registered chain of k links
\* replaces that chain, at its place in the registry, by the sub-chain of the
\* i links before it and the sub-chain of the k-1-i links after it, in the
\* original order; an empty sub-chain is not registered and the opened link
\* is in no registered chain.
C9_SplitSizes ==
  [][(variant = "puzzle" /\ gameState = IDLE /\ gameState' = LINK_OPENED) =>
       LET o == openLinkInfo'.body
           chain == getBodyChain(o)
           i == (CHOOSE j \in 1..Len(chain) : chain[j] = o) - 1
           pos == CHOOSE p \in 1..Len(chainsRef) : chainsRef[p] = chain
       IN /\ chainsRef' = SubSeq(chainsRef, 1, pos - 1) \o SubChains(chain, i)
                          \o SubSeq(chainsRef, pos + 1, Len(chainsRef))
          /\ Occurrences(chainsRef', o) = 0]_vars

\* C9, witness: the link at index 2 of the initial chain is open and the
\* registry holds the sub-chains of 2 and NumLinks-3 links.
C9_Witness ==
  /\ variant = "puzzle" /\ gameState = LINK_OPENED /\ opened = 1
  /\ openLinkInfo.body = 3
  /\ Len(chainsRef) = 2
  /\ Len(chainsRef[1]) = 2 /\ Len(chainsRef[2]) = NumLinks - 3

\* C10: LinkOpened is entered only from Idle, by opening a link; Connecting
\* is entered (or re-entered, by a step that writes the state or the
\* session) only from LinkOpened or Connecting, by adding a connection;
\* Idle is reached from a non-idle state only by a click on the opened link
\* or by the manual cancel; no other change of state occurs.
C10_ControllerTransitions ==
  [][variant = "puzzle" =>
       /\ (gameState' = LINK_OPENED /\ gameState # LINK_OPENED) =>
            /\ gameState = IDLE
            /\ openLinkInfo = NoOpenLink
            /\ openLinkInfo'.body \in PuzzleLinks
            /\ openLinkInfo'.connectedEnds = <<>>
       /\ (gameState' = CONNECTING /\ Closure' # Closure) =>
            /\ gameState \in {LINK_OPENED, CONNECTING}
            /\ Len(openLinkInfo'.connectedEnds) = Len(openLinkInfo.connectedEnds) + 1
       /\ (gameState # IDLE /\ gameState' = IDLE) =>
            handleMouseDown(openLinkInfo.body) \/ resetPuzzle
       /\ (gameState' # gameState) =>
            <<gameState, gameState'>> \in
              {<<IDLE, LINK_OPENED>>, <<LINK_OPENED, CONNECTING>>,
               <<LINK_OPENED, IDLE>>, <<CONNECTING, IDLE>>}]_vars

\* C10, witness: a session that went through LinkOpened and Connecting (two
\* connections) has been closed and the controller is back in Idle.
C10_Witness ==
  /\ variant = "puzzle" /\ gameState = IDLE /\ opened >= 1
  /\ NumConnectors = 2
  /\ instruction = "Connection closed. Click another link to open it."

\* The case of C7: the first session of a behaviour, on an interior link of
\* the initial chain, with exactly one connection, and a click on the opened
\* link.
C7_Case ==
  /\ variant = "puzzle"
  /\ opened = 1
  /\ gameState = CONNECTING
  /\ Len(openLinkInfo.connectedEnds) = 1
  /\ openLinkInfo.body \notin {1, NumLinks}
  /\ handleMouseDown(openLinkInfo.body)

\* C7 as claimed: opening an interior link of the single chain, connecting
\* it to exactly one chain end and clicking it again leaves the registry
\* with a single chain that holds all links, and the controller in Idle.
C7_OneConnectionRestoresSingleChain ==
  [][C7_Case =>
       /\ gameState' = IDLE
       /\ Len(chainsRef') = 1
       /\ \A l \in PuzzleLinks : Occurrences(chainsRef', l) = 1]_vars

\* C7 as amended: the same steps leave the controller in Idle and the
\* registry with exactly two chains that together hold every link once: the
\* sub-chain that was not connected, unchanged, and a new chain that starts
\* with the opened link and holds it and the links of the connected
\* sub-chain.
C7_OneConnectionLeavesTwoChains ==
  [][C7_Case =>
       LET absorbed == getBodyChain(openLinkInfo.connectedEnds[1])
           other == CHOOSE c \in {chainsRef[p] : p \in 1..Len(chainsRef)} : c # absorbed
       IN /\ gameState' = IDLE
          /\ openLinkInfo' = NoOpenLink
          /\ Len(chainsRef') = 2
          /\ chainsRef'[1] = other
          /\ chainsRef'[2][1] = openLinkInfo.body
          /\ Len(chainsRef'[2]) = 1 + Len(absorbed)
          /\ LinkSet(chainsRef'[2]) = {openLinkInfo.body} \cup LinkSet(absorbed)
          /\ \A l \in PuzzleLinks : Occurrences(chainsRef', l) = 1]_vars

\* C7, witness: the first session, on an interior link, was closed with one
\* connection made; the registry holds two chains.
C7_Witness ==
  /\ variant = "puzzle" /\ gameState = IDLE /\ opened = 1
  /\ instruction = "Connection closed. Click another link to open it."
  /\ NumConnectors = 1
  /\ Len(chainsRef) = 2
  /\ chainsRef[2][1] \notin {1, NumLinks}

----------------------------------------------------------------------------
(* Properties of the collision merge revisions *)

Auto == variant \in {"compound", "composite"}

\* The chainLink bodies of the registered chain c, in heap h
ChainLinksIn(h, c) ==
  IF variant = "compound" THEN SliceFrom(h[c].parts, 1) ELSE h[c].bodies

ChainLinks(c) == ChainLinksIn(heap, c)

\* The registry as the sequence of the link sequences of its chains
RegistryLinksIn(h, chains) == [i \in 1..Len(chains) |-> ChainLinksIn(h, chains[i])]

RECURSIVE TotalLinks(_)
TotalLinks(chains) ==
  IF chains = <<>> THEN 0 ELSE Len(Head(chains)) + TotalLinks(Tail(chains))

\* Number of structural (non-mouse) constraints of the world that touch body
StructuralCount(body) == BagCardinality(ChainConstraintsOn(body))

\* Some registered chain is the result of a merge
SomeMergedChain ==
  \E i \in 1..Len(chainsRef) : Len(ChainLinks(chainsRef[i])) > LinkCount

\* C2: in the collision revisions every chainLink body created at setup is
\* a member of exactly one registered chain in every reachable state, and the
\* registered chains hold NumChains * LinkCount links in total.
C2_LinksConserved ==
  Auto =>
    LET reg == RegistryLinksIn(heap, chainsRef)
    IN /\ \A l \in AutoLinks : Occurrences(reg, l) = 1
       /\ TotalLinks(reg) = NumChains * LinkCount

\* C2, witness: two merges have happened.
C2_Witness ==
  variant = "compound" /\ Len(chainsRef) = NumChains - 2

\* C5: when the loop body accepts a pair of links of two different chains A
\* (a links) and B (b links), the registry afterwards is the registry before
\* without B, chain A holds exactly the a+b links of A and B, and every
\* other registered chain is unchanged.
C5_MergeResult ==
  Auto =>
    \A x \in PairBodies : \A y \in PairBodies \ {x} :
      LET r == ProcessPair(x, y)
          Reg == {chainsRef[i] : i \in 1..Len(chainsRef)}
      IN r.accepted =>
           \E A \in Reg : \E B \in Reg \ {A} :
             /\ Includes(ChainLinks(A), x) /\ Includes(ChainLinks(B), y)
             /\ Len(r.chainsRef) = Len(chainsRef) - 1
             /\ r.chainsRef = SelectSeq(chainsRef, LAMBDA c : c # B)
             /\ Len(ChainLinksIn(r.heap, A)) = Len(ChainLinks(A)) + Len(ChainLinks(B))
             /\ LinkSet(ChainLinksIn(r.heap, A))
                  = LinkSet(ChainLinks(A)) \cup LinkSet(ChainLinks(B))
             /\ \A C \in Reg \ {A, B} : r.heap[C] = heap[C]

\* C5, witness: one merge has happened: three chains are registered and one
\* of them holds 2 * LinkCount links.
C5_Witness ==
  /\ variant = "compound" /\ Len(chainsRef) = NumChains - 1
  /\ \E i \in 1..Len(chainsRef) : Len(ChainLinks(chainsRef[i])) = 2 * LinkCount

\* The bodies reachable from R along the constraints of E
RECURSIVE Reach(_, _)
Reach(R, E) ==
  LET R2 == R \cup {c.b : c \in {e \in E : e.a \in R}}
              \cup {c.a : c \in {e \in E : e.b \in R}}
  IN IF R2 = R THEN R ELSE Reach(R2, E)

\* The structural constraints that join two of the links number Len - 1
\* and form a simple path over them
IsSimplePathOver(links) ==
  LET L == LinkSet(links)
      all == AllConstraints
      E == {e \in DOMAIN all : e.kind # "mouse" /\ e.a \in L /\ e.b \in L}
      Degree(l) == BagCardinality([e \in {x \in E : x.a = l \/ x.b = l} |-> all[e]])
  IN /\ BagCardinality([e \in E |-> all[e]]) = Len(links) - 1
     /\ \A l \in L : Degree(l) <= 2
     /\ L # {} => Reach({links[1]}, E) = L

\* The same for the registered chain c of a collision revision, where no
\* link may be touched by more than two structural constraints at all
IsSimplePath(c) ==
  /\ IsSimplePathOver(ChainLinks(c))
  /\ \A l \in LinkSet(ChainLinks(c)) : StructuralCount(l) <= 2

\* C6: in the collision revisions, in every reachable state,
\* the structural constraints that join the links of a registered chain of n
\* links number n-1 and form a simple path over them.
C6_PathInvariant ==
  Auto => \A i \in 1..Len(chainsRef) : IsSimplePath(chainsRef[i])

\* C8: in every reachable state, a pair whose two bodies are links of the
\* same registered chain (a merged one in particular) is skipped by the loop
\* body: nothing is merged and nothing changes.
C8_SameChainPairRejected ==
  Auto =>
    \A i \in 1..Len(chainsRef) :
      \A a \in LinkSet(ChainLinks(chainsRef[i])) :
        \A b \in LinkSet(ChainLinks(chainsRef[i])) \ {a} :
          ProcessPair(a, b) = Skip

\* C8, witness: the handler is examining the pairs of a tick after an
\* earlier merge.
C8_Witness ==
  variant = "compound" /\ pc = "loop" /\ SomeMergedChain


\* C11: one invocation of the collision handler merges at most once.  Every
\* step that shortens the registry shortens it by exactly one chain, is the
\* loop body on a pair it accepts, and is the last step of its invocation
\* (the handler is left); a pair that is rejected leaves the handler in the
\* loop with nothing changed, so the pairs after it are still examined: a
\* step that leaves the loop or changes something is not the loop body on a
\* rejected pair.
C11_AtMostOneMergePerTick ==
  [][Auto =>
       /\ Len(chainsRef') # Len(chainsRef) =>
            /\ Len(chainsRef') = Len(chainsRef) - 1
            /\ pc = "loop" /\ pc' = "idle"
            /\ \E a \in PairBodies : \E b \in PairBodies \ {a} :
                 ProcessPair(a, b).accepted /\ chainsRef' = ProcessPair(a, b).chainsRef
       /\ (pc = "loop" /\ ~(pc' = "loop" /\ UNCHANGED <<chainsRef, heap, world, instruction>>)) =>
            \A a \in PairBodies : \A b \in PairBodies \ {a} :
              ~ProcessPair(a, b).accepted => ~LoopPair(a, b)]_vars

\* C11, witness: the handler has been left after one merge while other pairs
\* that pass every acceptance check exist.
C11_Witness ==
  /\ variant = "compound" /\ pc = "idle"
  /\ Len(chainsRef) = NumChains - 1
  /\ \E a \in PairBodies : \E b \in PairBodies \ {a} : ProcessPair(a, b).accepted

\* Number of structural constraints of the world that join two links of the
\* registered chain c
NumInternalConstraints(c) ==
  LET L == LinkSet(ChainLinks(c))
      all == AllConstraints
      E == {e \in DOMAIN all : e.kind # "mouse" /\ e.a \in L /\ e.b \in L}
  IN BagCardinality([e \in E |-> all[e]])

\* Number of structural constraints of the world
NumStructuralConstraints ==
  LET all == AllConstraints
      E == {e \in DOMAIN all : e.kind # "mouse"}
  IN BagCardinality([e \in E |-> all[e]])

\* Right after setup the registry holds NumChains chains of LinkCount links
InitialRegistry ==
  /\ Len(chainsRef) = NumChains
  /\ \A i \in 1..Len(chainsRef) : Len(ChainLinks(chainsRef[i])) = LinkCount
  /\ TotalLinks(RegistryLinksIn(heap, chainsRef)) = NumChains * LinkCount

\* C12: right after the setup of a rectangle layout the registry
\* holds 4 chains of 3 links (12 links) and the world holds 2 structural
\* constraints per chain (8 in all).
C12_InitialLayout ==
  (Init /\ variant # "puzzle") =>
    /\ InitialRegistry
    /\ \A i \in 1..Len(chainsRef) : NumInternalConstraints(chainsRef[i]) = LinkCount - 1
    /\ NumStructuralConstraints = NumChains * (LinkCount - 1)

\* C13: in every reachable Idle state of the puzzle revision, for every
\* registered chain of k links, the constraints of the world that join two
\* of its links number k-1 and form a simple path over exactly its links,
\* no link being touched by more than two of them.
C13_PuzzlePathShape ==
  (variant = "puzzle" /\ gameState = IDLE) =>
    \A i \in 1..Len(chainsRef) : IsSimplePathOver(chainsRef[i])

\* The click on clickedBody is one the Idle branch rejects
RejectedInIdle(clickedBody) ==
  \/ getBodyChain(clickedBody) = <<>>
  \/ BagCardinality(ConstraintsOn(clickedBody)) > 2

\* C14: in Idle, a click that hits no body, a body of no registered chain or
\* a link touched by more than 2 constraints changes neither the controller
\* state, nor the session, nor the registry, nor the world's constraints.
C14_RejectedClicksAreNoOps ==
  [][(variant = "puzzle" /\ gameState = IDLE) =>
       /\ handleMouseDownNoBody =>
            UNCHANGED <<gameState, openLinkInfo, chainsRef, world, heap>>
       /\ \A b \in PuzzleLinks \cup Walls :
            (RejectedInIdle(b) /\ handleMouseDown(b)) =>
              UNCHANGED <<gameState, openLinkInfo, chainsRef, world, heap>>]_vars

\* C14, witness: an Idle state in which the three kinds of rejected click
\* exist and a link may still be opened: a registered link touched by more
\* than 2 constraints and a link that belongs to no registered chain.
C14_Witness ==
  /\ variant = "puzzle" /\ gameState = IDLE /\ opened < MaxOpened
  /\ \E l \in PuzzleLinks :
       getBodyChain(l) # <<>> /\ BagCardinality(ConstraintsOn(l)) > 2
  /\ \E l \in PuzzleLinks : getBodyChain(l) = <<>>

\* C15: the manual cancel, invoked in LinkOpened or Connecting, ends in Idle
\* with the session cleared and with every constraint taken from the link
\* when it was opened present in the world again.
C15_ManualCancel ==
  [][(/\ variant = "puzzle"
      /\ gameState \in {LINK_OPENED, CONNECTING}
      /\ resetPuzzle)
     => /\ gameState' = IDLE
        /\ openLinkInfo' = NoOpenLink
        /\ \A c \in DOMAIN openLinkInfo.originalConstraints :
             /\ c \in DOMAIN world'.constraints
             /\ world'.constraints[c] >= openLinkInfo.originalConstraints[c]]_vars

\* C15, witness: Idle after a cancel of a session on the first link, whose
\* opening took the anchor constraint out of the world: the anchor is back,
\* no connector is left and the instruction is the cancel text.
C15_Witness ==
  /\ variant = "puzzle" /\ gameState = IDLE /\ opened >= 1
  /\ instruction = "Action cancelled. Click a link to open it."
  /\ getBodyChain(1) = <<>>
  /\ AnchorConstraint \in DOMAIN world.constraints
  /\ NumConnectors = 0

\* The chain entities present in the world of a collision revision
WorldChains ==
  IF variant = "compound" THEN world.bodies \ Walls ELSE world.composites

\* The chains of the registry, as a set
RegisteredChains == {chainsRef[i] : i \in 1..Len(chainsRef)}

\* The chain objects created at setup
CreatedChains == IF variant = "compound" THEN CompoundIds ELSE CompositeIds

\* C16: in the collision revisions, in every reachable state (after every
\* tick in particular), the chain entities of the world are exactly the
\* chains of the registry; an absorbed chain is in neither, holds no link
\* any more and is the owner found for no link.
C16_RegistryMatchesWorld ==
  Auto =>
    /\ WorldChains = RegisteredChains
    /\ \A c \in CreatedChains \ RegisteredChains :
         /\ c \notin WorldChains
         /\ ChainLinks(c) = <<>>
    /\ variant = "compound" =>
         \A l \in AutoLinks : findParentComposite(l) \in RegisteredChains

\* C16, witness: after a tick with a merge, a chain created at setup is
\* absent from the registry and from the world.
C16_Witness ==
  /\ variant = "compound" /\ pc = "idle"
  /\ \E c \in CompoundIds : c \notin RegisteredChains /\ c \notin world.bodies

\* C17: in the puzzle revision, after every click, the chains registered in
\* chainsRef are exactly the chain composites of the world (a composite is
\* compared by its bodies array).
C17_PuzzleRegistryMatchesWorld ==
  variant = "puzzle" =>
    RegisteredChains = {heap[c].bodies : c \in world.composites}

\* C18: when a session with one or two connections is finalized, every
\* connected end is next to the opened link in the link sequence of the new
\* chain.
C18_FinalizeOrientation ==
  [][(/\ variant = "puzzle"
      /\ gameState = CONNECTING
      /\ handleMouseDown(openLinkInfo.body))
     => LET merged == chainsRef'[Len(chainsRef')]
            p == IndexOf(merged, openLinkInfo.body)
        IN \A k \in 1..Len(openLinkInfo.connectedEnds) :
             LET q == IndexOf(merged, openLinkInfo.connectedEnds[k])
             IN q = p + 1 \/ q = p - 1]_vars

\* The link is the first or the last of the link sequence of its chain
IsEndByPosition(l) ==
  \E i \in 1..Len(chainsRef) :
    LET links == ChainLinks(chainsRef[i])
    IN links # <<>> /\ (links[1] = l \/ links[Len(links)] = l)

C19_EndLinkByPosition ==
  Auto =>
    \A a \in PairBodies : \A b \in PairBodies \ {a} :
      ProcessPair(a, b).accepted => (IsEndByPosition(a) /\ IsEndByPosition(b))

\* C20: after the click that creates the first connection of a session the
\* instruction is the 'Connected one end' prompt, and after the click that
\* creates the second it is the 'Connected two ends' prompt.
C20_InstructionFollowsConnections ==
  [][(/\ variant = "puzzle"
      /\ Len(openLinkInfo'.connectedEnds) = Len(openLinkInfo.connectedEnds) + 1)
     => /\ Len(openLinkInfo'.connectedEnds) = 1 =>
             instruction' = "Connected one end. Click another end or click the yellow link to close."
        /\ Len(openLinkInfo'.connectedEnds) = 2 =>
             instruction' = "Connected two ends. Click the yellow link to close the connection."]_vars

\* The registered chain whose link sequence holds link l (Null if none)
ChainOf(l) ==
  IF \E i \in 1..Len(chainsRef) : Includes(ChainLinks(chainsRef[i]), l)
  THEN chainsRef[CHOOSE i \in 1..Len(chainsRef) : Includes(ChainLinks(chainsRef[i]), l)]
  ELSE Null

\* The mouse constraint holds link l: the link itself where links are plain
\* bodies, the compound body of the link where a chain is one body
HeldByMouse(l) ==
  mouseB # Null /\ (mouseB = l \/ (variant = "compound" /\ mouseB = ChainOf(l)))

\* C21: in every reachable state of the collision revisions, an end link
\* held by the mouse constraint still counts as an end link: its pair with
\* an end link of another chain is accepted.
C21_MouseConstraintNotCounted ==
  Auto =>
    \A a \in AutoLinks : \A b \in AutoLinks \ {a} :
      (/\ HeldByMouse(a)
       /\ IsEndByPosition(a) /\ IsEndByPosition(b)
       /\ ChainOf(a) # ChainOf(b))
      => ProcessPair(a, b).accepted

\* x and y are neighbours in the sequence links
Neighbours(links, x, y) ==
  \E i \in 1..(Len(links) - 1) :
    (links[i] = x /\ links[i + 1] = y) \/ (links[i] = y /\ links[i + 1] = x)

\* C22: when the loop body accepts the pair (x, y), x and y are afterwards
\* neighbours in the link sequence of the merged chain or joined directly by
\* a structural constraint of the world.
C22_AdjacentAfterMerge ==
  Auto =>
    \A x \in PairBodies : \A y \in PairBodies \ {x} :
      LET r == ProcessPair(x, y)
      IN r.accepted =>
           \/ Neighbours(ChainLinksIn(r.heap, ChainOf(x)), x, y)
           \/ \E c \in DOMAIN r.world.constraints :
                c.kind # "mouse" /\ {c.a, c.b} = {x, y}

\* Number of copies of constraint c in the bag
Copies(bag, c) == IF c \in DOMAIN bag THEN bag[c] ELSE 0

\* C23 as claimed: after the manual cancel invoked in Connecting the
\* connectors created during the session are still in the world.
C23_CancelKeepsConnectors ==
  [][(variant = "puzzle" /\ gameState = CONNECTING /\ resetPuzzle)
     => \A k \in 1..Len(openLinkInfo.newConstraints) :
          Copies(world'.constraints, openLinkInfo.newConstraints[k])
            >= Copies(world.constraints, openLinkInfo.newConstraints[k])]_vars

\* C23 as amended: the manual cancel invoked in Connecting takes every
\* connector created during the session out of the world again, and leaves
\* the registry as the split made it.  Constraints are compared by their
\* end bodies, so a connector of an earlier session between the same two
\* links, put back with the original constraints, counts as a copy.
C23_CancelRemovesConnectors ==
  [][(variant = "puzzle" /\ gameState = CONNECTING /\ resetPuzzle)
     => /\ \A k \in 1..Len(openLinkInfo.newConstraints) :
             Copies(world'.constraints, openLinkInfo.newConstraints[k])
               = Copies(world.constraints, openLinkInfo.newConstraints[k])
                 + Copies(openLinkInfo.originalConstraints, openLinkInfo.newConstraints[k])
                 - 1
        /\ chainsRef' = chainsRef
        /\ Occurrences(chainsRef', openLinkInfo.body) = 0]_vars

\* C23, witness: Connecting with two connections, both connectors in the
\* world: the state in which the manual cancel is invoked.
C23_Witness ==
  /\ variant = "puzzle" /\ gameState = CONNECTING
  /\ Len(openLinkInfo.newConstraints) = 2
  /\ \A k \in 1..2 : Copies(world.constraints, openLinkInfo.newConstraints[k]) >= 1

\* C24: in every reachable state of the puzzle revision the controller is
\* Idle exactly when there is no session, LinkOpened exactly when there is
\* a session with no connection, and Connecting exactly when there is a
\* session with one or two connections.
C24_StateAndSessionAgree ==
  variant = "puzzle" =>
    /\ gameState \in {IDLE, LINK_OPENED, CONNECTING}
    /\ gameState = IDLE <=> openLinkInfo = NoOpenLink
    /\ gameState = LINK_OPENED <=>
         (openLinkInfo # NoOpenLink /\ Len(openLinkInfo.connectedEnds) = 0)
    /\ gameState = CONNECTING <=>
         (openLinkInfo # NoOpenLink /\ Len(openLinkInfo.connectedEnds) \in {1, 2})

\* C24, witness: the second session of a behaviour, in Connecting with one
\* connection.
C24_Witness ==
  /\ variant = "puzzle" /\ opened = 2
  /\ gameState = CONNECTING
  /\ openLinkInfo # NoOpenLink /\ Len(openLinkInfo.connectedEnds) = 1

\* C25: in every reachable Idle state of the puzzle revision every chain
\* link belongs to some registered chain, so that the Idle branch does not
\* turn a click on it away for want of a chain.
C25_NoLinkLostAtRest ==
  (variant = "puzzle" /\ gameState = IDLE) =>
    \A l \in PuzzleLinks : getBodyChain(l) # <<>>

\* C26: a link of the initial chain is opened and clicked again with no
\* connection made: the constraints of the world are then those from before
\* the opening, which for the first session of a behaviour are those of
\* setup: the anchor and the mouse constraint at the top level and the chain
\* constraints in the chain composite, each once.
C26_PhysicalRoundTrip ==
  [][(/\ variant = "puzzle"
      /\ opened = 1
      /\ gameState = LINK_OPENED
      /\ handleMouseDown(openLinkInfo.body))
     => /\ world'.constraints = SetToBag({AnchorConstraint, MouseConstraint})
        /\ heap' = heap]_vars

\* What a session records: at most 2 connected ends, distinct, none the
\* opened link, each an end of a registered chain, and one connector from
\* the opened link per connected end
SessionBounds ==
  openLinkInfo # NoOpenLink =>
    LET ends == openLinkInfo.connectedEnds
    IN /\ Len(ends) <= 2
       /\ \A i \in 1..Len(ends) : \A j \in 1..Len(ends) : i # j => ends[i] # ends[j]
       /\ \A i \in 1..Len(ends) :
            /\ ends[i] # openLinkInfo.body
            /\ ends[i] \in getChainEnds
       /\ Len(openLinkInfo.newConstraints) = Len(ends)
       /\ \A i \in 1..Len(ends) :
            openLinkInfo.newConstraints[i] = Connector(openLinkInfo.body, ends[i])

\* The click on b is neither on the opened link nor on a chain end that can
\* still be connected
OtherBody(b) ==
  /\ b # openLinkInfo.body
  /\ ~(/\ b \in getChainEnds
       /\ Len(openLinkInfo.connectedEnds) < 2
       /\ ~Includes(openLinkInfo.connectedEnds, b))

\* C27: every state a step of the puzzle revision leads to satisfies the
\* session bounds, and while a session exists a click on any other body
\* changes nothing.
C27_SessionBounds ==
  [][variant = "puzzle" =>
       /\ SessionBounds'
       /\ \A b \in PuzzleLinks \cup Walls :
            (gameState # IDLE /\ OtherBody(b) /\ handleMouseDown(b)) => UNCHANGED vars]_vars

\* C27, witness: a session with two connected ends that belong to two
\* different registered chains.
C27_Witness ==
  /\ variant = "puzzle" /\ openLinkInfo # NoOpenLink
  /\ Len(openLinkInfo.connectedEnds) = 2
  /\ getBodyChain(openLinkInfo.connectedEnds[1]) # getBodyChain(openLinkInfo.connectedEnds[2])

\* C28: when a session with at least one connection is finalized, the
\* registry afterwards is the chains that own no connected end, unchanged
\* and in their order, followed by one new chain whose links are the opened
\* link and the links of the chains that own a connected end, each once.
C28_FinalizeConservesLinks ==
  [][(/\ variant = "puzzle"
      /\ gameState = CONNECTING
      /\ handleMouseDown(openLinkInfo.body))
     => LET ends == openLinkInfo.connectedEnds
            owners == {getBodyChain(ends[k]) : k \in 1..Len(ends)}
            Kept(c) == c \notin owners
            kept == SelectSeq(chainsRef, Kept)
            new == chainsRef'[Len(chainsRef')]
        IN /\ Len(chainsRef') = Len(kept) + 1
           /\ SubSeq(chainsRef', 1, Len(kept)) = kept
           /\ LinkSet(new) = {openLinkInfo.body} \cup UNION {LinkSet(c) : c \in owners}
           /\ Len(new) = Cardinality(LinkSet(new))]_vars

\* C28, witness: Idle after the first session of a behaviour was finalized
\* with two connections: one registered chain holds every link.
C28_Witness ==
  /\ variant = "puzzle" /\ gameState = IDLE /\ opened = 1
  /\ NumConnectors = 2
  /\ Len(chainsRef) = 1 /\ Len(chainsRef[1]) = NumLinks

\* C29: in the collision revisions the number of registered chains never
\* grows and never drops below 1; a step of the handler that merges (it
\* leaves the loop having changed something) lowers it by exactly one, and
\* nothing else changes it; once a single chain is left the registry does
\* not change any more.
C29_ProgressBound ==
  [][Auto =>
       /\ Len(chainsRef) >= 1 /\ Len(chainsRef') >= 1
       /\ Len(chainsRef') <= Len(chainsRef)
       /\ IF pc = "loop" /\ pc' = "idle"
             /\ ~UNCHANGED <<chainsRef, heap, world, instruction>>
          THEN Len(chainsRef') = Len(chainsRef) - 1
          ELSE chainsRef' = chainsRef
       /\ Len(chainsRef) = 1 => chainsRef' = chainsRef]_vars

\* C29, witness: the handler examines the pairs of a tick when a single
\* chain is left, after NumChains - 1 merges.
C29_Witness ==
  variant = "compound" /\ Len(chainsRef) = 1 /\ pc = "loop"

\* C30: in every reachable state of the collision revisions with more than
\* one registered chain, some pair of links of two different chains passes
\* every acceptance check of the loop body.
C30_NoDeadEnd ==
  (Auto /\ Len(chainsRef) > 1) =>
    \E a \in AutoLinks : \E b \in AutoLinks \ {a} :
      ChainOf(a) # ChainOf(b) /\ ProcessPair(a, b).accepted

----------------------------------------------------------------------------
(* The click handler and its re-binding *)

\* No value occurs at two places of the sequence
NoRepeat(s) == \A i, j \in 1..Len(s) : s[i] = s[j] => i = j

\* C31: every mousedown finds registered the listener that holds the state
\* and the session written by the handler step before it, in the initial
\* state and after every step; no link is opened while a session for
\* another link exists, and no chain end and no connecting constraint is
\* recorded twice in a session.
C31_ClicksNeverStale ==
  /\ variant = "puzzle" => bound = Closure
  /\ [][variant = "puzzle" =>
          /\ bound' = Closure'
          /\ (openLinkInfo # NoOpenLink /\ openLinkInfo' # NoOpenLink)
               => openLinkInfo'.body = openLinkInfo.body
          /\ NoRepeat(openLinkInfo'.connectedEnds)
          /\ NoRepeat(openLinkInfo'.newConstraints)]_vars

\* C31, witness: three clicks in a row (open, connect, connect) have each
\* been decided by a listener re-bound after the click before: a session
\* with two distinct ends, and the registered listener holds this session.
C31_Witness ==
  /\ variant = "puzzle" /\ gameState = CONNECTING
  /\ Len(openLinkInfo.connectedEnds) = 2
  /\ openLinkInfo.connectedEnds[1] # openLinkInfo.connectedEnds[2]
  /\ bound.gameState = CONNECTING
  /\ bound.openLinkInfo = openLinkInfo

\* C32: the manual cancel, whenever it is invoked, leaves the list of
\* registered chains and their composites as they are; after a cancel of a
\* session the opened link is still in no registered chain, so the split is
\* not reversed.
C32_CancelKeepsRegistry ==
  [][(variant = "puzzle" /\ resetPuzzle)
     => /\ chainsRef' = chainsRef
        /\ heap' = heap
        /\ openLinkInfo # NoOpenLink =>
             /\ Occurrences(chainsRef', openLinkInfo.body) = 0
             /\ chainsRef' # <<SeqOfRange(1, NumLinks)>>]_vars

\* C32, witness: Idle with the cancel text, the registry still the two
\* sub-chains of the split of an interior link, which is in no chain.
C32_Witness ==
  /\ variant = "puzzle" /\ gameState = IDLE /\ opened = 1
  /\ instruction = "Action cancelled. Click a link to open it."
  /\ \E l \in PuzzleLinks \ {1, NumLinks} :
       chainsRef = <<SeqOfRange(1, l - 1), SeqOfRange(l + 1, NumLinks)>>

----------------------------------------------------------------------------
(* Ticks of the collision handler *)

\* What a tick can write: registry, bodies and constraints, instruction
Written == <<chainsRef, heap, world, instruction>>

\* The tests of the loop body that end in `continue', in the order of the
\* code.  Compound-body revision: a body that is no chain link, an owner
\* not found in the registry, one owner for both bodies, a body with two
\* or more constraints other than the mouse constraint.  Composite
\* revision: a body that is no chain link or two bodies with one parent, a
\* parent without a bodies array, a body with two or more constraints.
RejectReason(a, b) ==
  IF variant = "compound"
  THEN \/ Label(a) # "chainLink" \/ Label(b) # "chainLink"
       \/ findParentComposite(a) = Null \/ findParentComposite(b) = Null
       \/ SameComposite(findParentComposite(a), findParentComposite(b))
       \/ NotEndLinks(BagCardinality(ChainConstraintsOn(a)),
                      BagCardinality(ChainConstraintsOn(b)))
  ELSE \/ Label(a) # "chainLink" \/ Label(b) # "chainLink"
       \/ Parent(a) = Parent(b)
       \/ ~HasBodiesArray(Parent(a)) \/ ~HasBodiesArray(Parent(b))
       \/ NotEndLinks(BagCardinality(ConstraintsOn(a)),
                      BagCardinality(ConstraintsOn(b)))

\* C33: in the collision revisions, entering the handler writes nothing, a
\* pair with a reason for rejection is not accepted and its iteration would
\* write nothing, and a step inside the loop that writes anything is the
\* iteration on a pair it accepts; so a tick whose pairs are all rejected
\* ends with registry, world and instruction as it found them.
C33_RejectedTickIsNoOp ==
  [][Auto =>
       /\ (pc = "idle" /\ pc' = "loop") =>
            /\ UNCHANGED Written
            /\ \A a \in PairBodies : \A b \in PairBodies \ {a} :
                 RejectReason(a, b) =>
                   LET r == ProcessPair(a, b)
                   IN /\ ~r.accepted
                      /\ <<r.chainsRef, r.heap, r.world, r.instruction>> = Written
       /\ (pc = "loop" /\ ~UNCHANGED Written) =>
            /\ pc' = "idle"
            /\ \E a \in PairBodies : \E b \in PairBodies \ {a} :
                 ProcessPair(a, b).accepted /\ LoopPair(a, b)]_vars

\* C33, witness: the handler is inside the loop in the compound-body
\* revision after an earlier merge, and the tick can hold a pair with a wall
\* and a pair of two links of one chain, both rejected.
C33_Witness ==
  /\ variant = "compound" /\ pc = "loop" /\ Len(chainsRef) < NumChains
  /\ \E a \in AutoLinks : \E w \in Walls : ~ProcessPair(a, w).accepted
  /\ \E a \in AutoLinks : \E b \in AutoLinks \ {a} :
       ChainOf(a) = ChainOf(b) /\ ~ProcessPair(a, b).accepted

\* The text the collision revisions show: the drag prompt as long as all
\* chains of the setup are registered, the connected message afterwards
StatusOf(chains) ==
  IF Len(chains) = NumChains
  THEN "Drag the chains together to connect them."
  ELSE "Nice! Keep connecting to form one single chain."

\* C34: in the collision revisions the instruction is the drag prompt in
\* the initial state and in every state before the first accepted merge,
\* and the connected message in every state after it; a step changes it
\* only if it is the iteration that accepts a merge and ends the tick, and
\* every accepted merge leaves the connected message.
C34_StatusMessage ==
  /\ Auto => instruction = StatusOf(chainsRef)
  /\ [][Auto =>
          /\ instruction' = StatusOf(chainsRef')
          /\ instruction' # instruction =>
               /\ pc = "loop" /\ pc' = "idle"
               /\ Len(chainsRef) = NumChains
               /\ Len(chainsRef') = NumChains - 1
          /\ Len(chainsRef') < Len(chainsRef) =>
               instruction' = "Nice! Keep connecting to form one single chain."]_vars

\* C34, witness: the compound-body revision after at least two merges,
\* outside the handler, with the connected message shown.
C34_Witness ==
  /\ variant = "compound" /\ pc = "idle"
  /\ Len(chainsRef) <= NumChains - 2
  /\ instruction = "Nice! Keep connecting to form one single chain."
====
